---- MODULE Spec2Model ----
(***************************************************************************)
(* Model of master_state.go (mesos_exporter): the port-range codec         *)
(* (ranges.UnmarshalJSON, ranges.size), the metrics table built by         *)
(* newMasterStateCollector and the collection cycle masterCollector.Collect.*)
(*                                                                         *)
(* Byte strings are sequences of one-character strings.  uint64 arithmetic *)
(* is carried out at UintBits bits (TLC integers are 32 bits wide), and    *)
(* float64(uint64) at MantBits bits of mantissa; float64 quantities read   *)
(* from the document are small integers, on which * 1024 is exact.         *)
(***************************************************************************)
EXTENDS Integers, Sequences, FiniteSets, TLC

VARIABLES
    gauges,     \* metric name -> (label vector -> value): the GaugeVecs of c.metrics
    pc,         \* per Collect call: "idle", "decode", "set", "collect"
    body,       \* per Collect call: the response body held between Get and Decode
    snap,       \* per Collect call: the local `var s state`
    start,      \* per Collect call: where the range over c.metrics starts
    k,          \* per Collect call: number of table entries already ranged over
    calls,      \* per Collect call: the WithLabelValues(..).Set(..) calls of its latest extractor run
    sent,       \* per Collect call: the metric and observations it last sent on ch
    result,     \* per Collect call: how the last call ended
    cycles,     \* number of Collect calls started
    history,    \* the snapshots decoded so far
    input,      \* codec: the bytes handed to UnmarshalJSON
    toks,       \* codec: the tokens input was written from
    rs,         \* codec: the ranges value decoded into
    err,        \* codec: whether UnmarshalJSON returned an error
    sz,         \* codec: the value size() returned
    rpc         \* codec: "start", "decoded", "sized"

vars == <<gauges, pc, body, snap, start, k, calls, sent, result, cycles, history,
          input, toks, rs, err, sz, rpc>>

collectorVars == <<gauges, pc, body, snap, start, k, calls, sent, result, cycles, history>>
codecVars == <<input, toks, rs, err, sz, rpc>>

(***************************************************************************)
(* Bounds                                                                  *)
(***************************************************************************)
UintBits == 5
MantBits == 4
MaxTokens == 2
MaxCycles == 3
MaxConcCycles == 2
MaxStart == 1

RECURSIVE Pow2(_)
Pow2(n) == IF n = 0 THEN 1 ELSE 2 * Pow2(n - 1)

UintMod == Pow2(UintBits)
MaxUint == UintMod - 1

(***************************************************************************)
(* Byte-string helpers: bytes.Trim, bytes.Split, bytes.SplitN,             *)
(* bytes.TrimSpace, strconv.ParseUint                                      *)
(***************************************************************************)
Cutset == {"[", "]", "\""}
Space == {" "}
DigitChars == <<"0", "1", "2", "3", "4", "5", "6", "7", "8", "9">>

IsDigit(c) == \E i \in 1..10 : DigitChars[i] = c
DigitVal(c) == (CHOOSE i \in 1..10 : DigitChars[i] = c) - 1

RECURSIVE TrimLeft(_, _)
TrimLeft(s, cut) ==
    IF s # <<>> /\ Head(s) \in cut THEN TrimLeft(Tail(s), cut) ELSE s

RECURSIVE TrimRight(_, _)
TrimRight(s, cut) ==
    IF s # <<>> /\ s[Len(s)] \in cut THEN TrimRight(SubSeq(s, 1, Len(s) - 1), cut) ELSE s

Trim(s, cut) == TrimRight(TrimLeft(s, cut), cut)

\* variant: no trimming
TrimSpaceNone(s) == s

TrimSpace(s) == Trim(s, Space)

\* index of the first occurrence of sep in s, 0 if there is none
RECURSIVE IndexFrom(_, _, _)
IndexFrom(s, sep, i) ==
    IF i > Len(s) THEN 0
    ELSE IF s[i] = sep THEN i
    ELSE IndexFrom(s, sep, i + 1)

Index(s, sep) == IndexFrom(s, sep, 1)

\* bytes.Split(s, sep): all the subslices between separators
RECURSIVE Split(_, _)
Split(s, sep) ==
    LET i == Index(s, sep)
    IN  IF i = 0 THEN <<s>>
        ELSE <<SubSeq(s, 1, i - 1)>> \o Split(SubSeq(s, i + 1, Len(s)), sep)

\* bytes.SplitN(s, sep, 2): at most two subslices, the second the unsplit remainder
SplitN2(s, sep) ==
    LET i == Index(s, sep)
    IN  IF i = 0 THEN <<s>>
        ELSE <<SubSeq(s, 1, i - 1), SubSeq(s, i + 1, Len(s))>>

\* strconv.ParseUint(s, 10, bits): digits only, no sign, no empty string, no overflow
RECURSIVE ParseDigits(_, _, _)
ParseDigits(s, i, n) ==
    IF i > Len(s) THEN [ok |-> TRUE, val |-> n]
    ELSE IF ~IsDigit(s[i]) THEN [ok |-> FALSE, val |-> 0]
    ELSE IF n * 10 + DigitVal(s[i]) > MaxUint THEN [ok |-> FALSE, val |-> MaxUint]
    ELSE ParseDigits(s, i + 1, n * 10 + DigitVal(s[i]))

ParseUint(s) ==
    IF s = <<>> THEN [ok |-> FALSE, val |-> 0] ELSE ParseDigits(s, 1, 0)

(***************************************************************************)
(* ranges.UnmarshalJSON and ranges.size                                    *)
(***************************************************************************)
\* variant: a token that fails is skipped instead of ending the decode
RECURSIVE DecodeTokensSkip(_, _, _)
DecodeTokensSkip(tokens, i, acc) ==
    IF i > Len(tokens) THEN [rs |-> acc, err |-> FALSE]
    ELSE LET ps == SplitN2(tokens[i], "-")
         IN  IF Len(ps) # 2 THEN DecodeTokensSkip(tokens, i + 1, acc)
             ELSE LET lo == ParseUint(Trim(ps[1], Space))
                      hi == ParseUint(Trim(ps[2], Space))
                  IN  IF ~lo.ok \/ ~hi.ok THEN DecodeTokensSkip(tokens, i + 1, acc)
                      ELSE DecodeTokensSkip(tokens, i + 1, Append(acc, <<lo.val, hi.val>>))

\* the loop over the comma-separated tokens: appends to acc until a token fails
RECURSIVE DecodeTokens(_, _, _)
DecodeTokens(tokens, i, acc) ==
    IF i > Len(tokens) THEN [rs |-> acc, err |-> FALSE]
    ELSE LET ps == SplitN2(tokens[i], "-")
         IN  IF Len(ps) # 2 THEN [rs |-> acc, err |-> TRUE]
             ELSE LET lo == ParseUint(TrimSpace(ps[1]))
                      hi == ParseUint(TrimSpace(ps[2]))
                  IN  IF ~lo.ok THEN [rs |-> acc, err |-> TRUE]
                      ELSE IF ~hi.ok THEN [rs |-> acc, err |-> TRUE]
                      ELSE DecodeTokens(tokens, i + 1, Append(acc, <<lo.val, hi.val>>))

UnmarshalJSON(old, data) ==
    LET d == Trim(data, Cutset)
    IN  IF Len(d) = 0 THEN [rs |-> old, err |-> FALSE]
        ELSE DecodeTokens(Split(d, ","), 1, old)

\* variant: a reversed interval is left out of the sum
RECURSIVE SizeFromChecked(_, _, _)
SizeFromChecked(r, i, acc) ==
    IF i > Len(r) THEN acc
    ELSE IF r[i][2] < r[i][1] THEN SizeFromChecked(r, i + 1, acc)
    ELSE SizeFromChecked(r, i + 1, (acc + 1 + (r[i][2] - r[i][1])) % UintMod)

\* sz += 1 + (rs[i][1] - rs[i][0]) in unsigned arithmetic
RECURSIVE SizeFrom(_, _, _)
SizeFrom(r, i, acc) ==
    IF i > Len(r) THEN acc
    ELSE SizeFrom(r, i + 1, (acc + ((1 + ((r[i][2] - r[i][1]) % UintMod)) % UintMod)) % UintMod)

size(r) == SizeFrom(r, 1, 0)

\* float64(n) for an unsigned n: round to nearest, ties to even, MantBits of mantissa
RECURSIVE RoundAt(_, _)
RoundAt(n, unit) ==
    IF n < Pow2(MantBits) * unit
    THEN LET q == n \div unit
             r == n % unit
         IN  IF 2 * r > unit \/ (2 * r = unit /\ q % 2 = 1) THEN (q + 1) * unit ELSE q * unit
    ELSE RoundAt(n, 2 * unit)

Float64(n) == RoundAt(n, 1)

(***************************************************************************)
(* Codec inputs: encodings written from a sequence of tokens, each either  *)
(* a range "lo-hi" or a malformed token, joined by commas, the numbers     *)
(* optionally surrounded by spaces, the whole optionally wrapped.          *)
(***************************************************************************)
RECURSIVE ToDigits(_)
ToDigits(n) ==
    IF n < 10 THEN <<DigitChars[n + 1]>>
    ELSE ToDigits(n \div 10) \o <<DigitChars[(n % 10) + 1]>>

Vals == {0, 10, 20, 30, MaxUint}

BadTexts ==
    { <<"1", "0">>,                          \* no "-"
      <<"x", "-", "2", "0">>,                \* non-numeric low part
      <<"5", "-">>,                          \* empty high part
      <<"-", "5">>,                          \* empty low part
      <<"1", "-", "2", "-", "3">>,           \* second "-" ends up in the high part
      <<"0", "-">> \o ToDigits(MaxUint + 1)  \* high part does not fit the width
    }

Tokens ==
    [kind : {"range"}, lo : Vals, hi : Vals, text : {<<>>}]
    \cup [kind : {"bad"}, lo : {0}, hi : {0}, text : BadTexts]

TokenSeqs == UNION { [1..n -> Tokens] : n \in 0..MaxTokens }

Pad(s, pad) == IF pad = 1 THEN <<" ">> \o s \o <<" ">> ELSE s

RenderToken(t, pad) ==
    IF t.kind = "range"
    THEN Pad(ToDigits(t.lo), pad) \o <<"-">> \o Pad(ToDigits(t.hi), pad)
    ELSE t.text

RECURSIVE Join(_, _, _)
Join(ts, i, pad) ==
    IF i > Len(ts) THEN <<>>
    ELSE IF i = Len(ts) THEN RenderToken(ts[i], pad)
    ELSE RenderToken(ts[i], pad) \o <<",">> \o Join(ts, i + 1, pad)

Wrappers ==
    { <<<<>>, <<>>>>,
      <<<<"[">>, <<"]">>>>,
      <<<<"\"">>, <<"\"">>>>,
      <<<<"[", "\"">>, <<"\"", "]">>>> }

Encode(ts, pad, w) == w[1] \o Join(ts, 1, pad) \o w[2]

(***************************************************************************)
(* The collector's state after construction; the codec's idle state        *)
(***************************************************************************)
Procs == {1, 2}

MetricTable ==
    << "cpus", "cpus_used", "cpus_unreserved",
       "mem_bytes", "mem_used_bytes", "mem_unreserved_bytes",
       "disk_bytes", "disk_used_bytes", "disk_unreserved_bytes",
       "ports", "ports_used", "ports_unreserved",
       "task_state_time" >>

NumMetrics == Len(MetricTable)
MetricNames == { MetricTable[i] : i \in 1..NumMetrics }
NodeMetrics == MetricNames \ {"task_state_time"}

EmptyState == [Slaves |-> <<>>, Frameworks |-> <<>>]
NoBody == [kind |-> "none"]
NoSent == [metric |-> "", obs |-> <<>>]

CollectorInit ==
    /\ gauges = [m \in MetricNames |-> <<>>]
    /\ pc = [p \in Procs |-> "idle"]
    /\ body = [p \in Procs |-> NoBody]
    /\ snap = [p \in Procs |-> EmptyState]
    /\ start = [p \in Procs |-> 0]
    /\ k = [p \in Procs |-> 0]
    /\ calls = [p \in Procs |-> <<>>]
    /\ sent = [p \in Procs |-> NoSent]
    /\ result = [p \in Procs |-> "none"]
    /\ cycles = 0
    /\ history = {}

CodecIdle ==
    /\ input = <<>>
    /\ toks = <<>>
    /\ rs = <<>>
    /\ err = FALSE
    /\ sz = 0
    /\ rpc = "idle"

(***************************************************************************)
(* Codec specification: decode an encoding into a fresh ranges value, then *)
(* take its size.                                                          *)
(***************************************************************************)
RangeInit ==
    /\ CollectorInit
    /\ toks \in TokenSeqs
    /\ \E pad \in {0, 1}, w \in Wrappers : input = Encode(toks, pad, w)
    /\ rs = <<>>
    /\ err = FALSE
    /\ sz = 0
    /\ rpc = "start"

RangeDecode ==
    /\ rpc = "start"
    /\ LET r == UnmarshalJSON(rs, input)
       IN  /\ rs' = r.rs
           /\ err' = r.err
    /\ rpc' = "decoded"
    /\ UNCHANGED <<input, toks, sz>>
    /\ UNCHANGED collectorVars

RangeSize ==
    /\ rpc = "decoded"
    /\ sz' = size(rs)
    /\ rpc' = "sized"
    /\ UNCHANGED <<input, toks, rs, err>>
    /\ UNCHANGED collectorVars

RangeNext == RangeDecode \/ RangeSize

RangeSpec == RangeInit /\ [][RangeNext]_vars

(***************************************************************************)
(* Response bodies.  A body is either not JSON at all or a document of the *)
(* shape of `state`, its port ranges still encoded.                        *)
(***************************************************************************)
Res(c, d, m, p) == [CPUs |-> c, Disk |-> d, Mem |-> m, Ports |-> p]

NoRes == Res(0, 0, 0, <<>>)

Status(st, ts) == [State |-> st, Timestamp |-> ts]

Task(name, id, ex, fw, sl, st, res, statuses) ==
    [Name |-> name, ID |-> id, ExecutorID |-> ex, FrameworkID |-> fw, SlaveID |-> sl,
     State |-> st, Resources |-> res, Statuses |-> statuses]

Slave(pid, used, unreserved, total) ==
    [PID |-> pid, Used |-> used, Unreserved |-> unreserved, Total |-> total]

Framework(active, tasks, completed) ==
    [Active |-> active, Tasks |-> tasks, Completed |-> completed]

Enc1020 == <<"[", "1", "0", "-", "2", "0", "]">>
Enc1012 == <<"[", "1", "0", "-", "1", "2", "]">>
Enc1320 == <<"[", "1", "3", "-", "2", "0", "]">>
Enc030 == <<"[", "0", "-", "3", "0", "]">>
Enc2010 == <<"[", "2", "0", "-", "1", "0", "]">>
EncTwo == <<"[", "1", "-", "2", ",", " ", "4", "-", "8", "]">>
EncNoDash == <<"1", "0">>

TaskRun == Task("n0", "t0", "e0", "f1", "p1", "TASK_RUNNING", NoRes,
                <<Status("TASK_RUNNING", 60)>>)
TaskFin == Task("n1", "t1", "e1", "f1", "p1", "TASK_FINISHED", Res(1, 1, 1, Enc1012),
                <<Status("TASK_FINISHED", 100), Status("TASK_RUNNING", 50)>>)
TaskNoStatus == Task("n2", "t2", "e1", "f1", "p2", "TASK_LOST", NoRes, <<>>)
TaskOld == Task("n3", "t3", "e1", "f1", "p2", "TASK_FAILED", NoRes,
                <<Status("TASK_FAILED", 30)>>)
TaskInactive == Task("n4", "t4", "e2", "f2", "p1", "TASK_FINISHED", NoRes,
                     <<Status("TASK_FINISHED", 7)>>)
\* same label values as TaskFin, statuses in increasing order of timestamp
TaskFinAgain == Task("n1", "t1", "e1", "f1", "p1", "TASK_FINISHED", NoRes,
                     <<Status("TASK_STAGING", 50), Status("TASK_FINISHED", 100)>>)
TaskBadPorts == Task("n1", "t1", "e1", "f1", "p1", "TASK_FINISHED", Res(1, 1, 1, EncNoDash),
                     <<Status("TASK_FINISHED", 100)>>)

\* node p1 reports Used above Total; node p2 has 31 ports
DocA ==
    [Slaves |-> << Slave("p1", Res(5, 1, 3, Enc1012), Res(1, 7, 1, Enc1320), Res(4, 8, 2, Enc1020)),
                   Slave("p2", NoRes, Res(2, 3, 1, EncTwo), Res(2, 3, 1, Enc030)) >>,
     Frameworks |-> << Framework(TRUE, <<TaskRun>>, <<TaskFin, TaskNoStatus, TaskOld>>),
                       Framework(FALSE, <<>>, <<TaskInactive>>) >>]

\* node p2 is gone, p1 changed (a reversed used range); the first framework turned inactive
DocB ==
    [Slaves |-> << Slave("p1", Res(5, 1, 1, Enc2010), Res(1, 7, 1, Enc1320), Res(3, 8, 2, Enc1020)) >>,
     Frameworks |-> << Framework(FALSE, <<TaskRun>>, <<TaskOld>>),
                       Framework(TRUE, <<>>, <<TaskFinAgain>>) >>]

\* no node, inactive frameworks only
DocC ==
    [Slaves |-> <<>>,
     Frameworks |-> << Framework(FALSE, <<TaskRun>>, <<TaskInactive, TaskFin>>) >>]

\* two nodes report the same PID
DocD ==
    [Slaves |-> << Slave("p1", Res(5, 1, 3, Enc1012), Res(1, 7, 1, Enc1320), Res(4, 8, 2, Enc1020)),
                   Slave("p1", Res(5, 1, 3, Enc1012), Res(1, 7, 1, Enc1320), Res(6, 8, 1, Enc1020)) >>,
     Frameworks |-> <<>>]

\* well-formed JSON, one malformed port range deep in the document
DocBadPorts ==
    [Slaves |-> << Slave("p1", Res(9, 9, 9, Enc1012), Res(9, 9, 9, Enc1320), Res(9, 9, 9, Enc1020)) >>,
     Frameworks |-> << Framework(TRUE, <<>>, <<TaskBadPorts>>) >>]

Docs == {DocA, DocB, DocC, DocD, DocBadPorts}

Bodies == [kind : {"json"}, doc : Docs] \cup {[kind |-> "malformed", doc |-> EmptyState]}

(***************************************************************************)
(* json.Decoder.Decode into `var s state`: every encoded port range goes   *)
(* through ranges.UnmarshalJSON; the first error aborts the decode.        *)
(***************************************************************************)
DecodeRes(r) ==
    LET u == UnmarshalJSON(<<>>, r.Ports)
    IN  [val |-> [r EXCEPT !.Ports = u.rs], err |-> u.err]

DecodeTask(t) ==
    LET r == DecodeRes(t.Resources)
    IN  [val |-> [t EXCEPT !.Resources = r.val], err |-> r.err]

DecodeTasks(ts) ==
    [val |-> [i \in 1..Len(ts) |-> DecodeTask(ts[i]).val],
     err |-> \E i \in 1..Len(ts) : DecodeTask(ts[i]).err]

DecodeSlave(s) ==
    LET u == DecodeRes(s.Used)
        n == DecodeRes(s.Unreserved)
        t == DecodeRes(s.Total)
    IN  [val |-> [PID |-> s.PID, Used |-> u.val, Unreserved |-> n.val, Total |-> t.val],
         err |-> u.err \/ n.err \/ t.err]

DecodeFramework(f) ==
    LET t == DecodeTasks(f.Tasks)
        c == DecodeTasks(f.Completed)
    IN  [val |-> [Active |-> f.Active, Tasks |-> t.val, Completed |-> c.val],
         err |-> t.err \/ c.err]

DecodeState(b) ==
    IF b.kind # "json" THEN [val |-> EmptyState, err |-> TRUE]
    ELSE LET d == b.doc
         IN  [val |-> [Slaves |-> [i \in 1..Len(d.Slaves) |-> DecodeSlave(d.Slaves[i]).val],
                       Frameworks |-> [i \in 1..Len(d.Frameworks) |->
                                          DecodeFramework(d.Frameworks[i]).val]],
              err |-> \/ \E i \in 1..Len(d.Slaves) : DecodeSlave(d.Slaves[i]).err
                      \/ \E i \in 1..Len(d.Frameworks) : DecodeFramework(d.Frameworks[i]).err]

(***************************************************************************)
(* The metrics table: descriptors and extractors                           *)
(***************************************************************************)
LabelNames(m) ==
    IF m = "task_state_time"
    THEN <<"slave", "task", "executor", "name", "framework", "state">>
    ELSE <<"slave">>

\* variant: mem_used_bytes reads the total view
NodeValueMixed(m, s) ==
    CASE m = "cpus" -> s.Total.CPUs
      [] m = "cpus_used" -> s.Used.CPUs
      [] m = "cpus_unreserved" -> s.Unreserved.CPUs
      [] m = "mem_bytes" -> s.Total.Mem * 1024
      [] m = "mem_used_bytes" -> s.Total.Mem * 1024
      [] m = "mem_unreserved_bytes" -> s.Unreserved.Mem * 1024
      [] m = "disk_bytes" -> s.Total.Disk * 1024
      [] m = "disk_used_bytes" -> s.Used.Disk * 1024
      [] m = "disk_unreserved_bytes" -> s.Unreserved.Disk * 1024
      [] m = "ports" -> Float64(size(s.Total.Ports))
      [] m = "ports_used" -> Float64(size(s.Used.Ports))
      [] m = "ports_unreserved" -> Float64(size(s.Unreserved.Ports))

NodeValue(m, s) ==
    CASE m = "cpus" -> s.Total.CPUs
      [] m = "cpus_used" -> s.Used.CPUs
      [] m = "cpus_unreserved" -> s.Unreserved.CPUs
      [] m = "mem_bytes" -> s.Total.Mem * 1024
      [] m = "mem_used_bytes" -> s.Used.Mem * 1024
      [] m = "mem_unreserved_bytes" -> s.Unreserved.Mem * 1024
      [] m = "disk_bytes" -> s.Total.Disk * 1024
      [] m = "disk_used_bytes" -> s.Used.Disk * 1024
      [] m = "disk_unreserved_bytes" -> s.Unreserved.Disk * 1024
      [] m = "ports" -> Float64(size(s.Total.Ports))
      [] m = "ports_used" -> Float64(size(s.Used.Ports))
      [] m = "ports_unreserved" -> Float64(size(s.Unreserved.Ports))

\* one WithLabelValues(labels...).Set(value) call; src is the entity ranged over
Call(m, labels, value, src) == [metric |-> m, labels |-> labels, value |-> value, src |-> src]

RECURSIVE SlaveCalls(_, _, _)
SlaveCalls(m, slaves, i) ==
    IF i > Len(slaves) THEN <<>>
    ELSE <<Call(m, <<slaves[i].PID>>, NodeValue(m, slaves[i]), slaves[i])>>
         \o SlaveCalls(m, slaves, i + 1)

TaskLabelValues(task) ==
    <<task.ID, task.SlaveID, task.ExecutorID, task.Name, task.FrameworkID, task.State>>

\* variant: the last status is reported instead of the first
RECURSIVE CompletedCallsLast(_, _)
CompletedCallsLast(tasks, j) ==
    IF j > Len(tasks) THEN <<>>
    ELSE (IF Len(tasks[j].Statuses) > 0
          THEN <<Call("task_state_time", TaskLabelValues(tasks[j]),
                      tasks[j].Statuses[Len(tasks[j].Statuses)].Timestamp, tasks[j])>>
          ELSE <<>>)
         \o CompletedCallsLast(tasks, j + 1)

RECURSIVE CompletedCalls(_, _)
CompletedCalls(tasks, j) ==
    IF j > Len(tasks) THEN <<>>
    ELSE (IF Len(tasks[j].Statuses) > 0
          THEN <<Call("task_state_time", TaskLabelValues(tasks[j]),
                      tasks[j].Statuses[1].Timestamp, tasks[j])>>
          ELSE <<>>)
         \o CompletedCalls(tasks, j + 1)

\* variant: inactive frameworks are not skipped
RECURSIVE FrameworkCallsAll(_, _)
FrameworkCallsAll(fs, i) ==
    IF i > Len(fs) THEN <<>>
    ELSE CompletedCalls(fs[i].Completed, 1) \o FrameworkCallsAll(fs, i + 1)

RECURSIVE FrameworkCalls(_, _)
FrameworkCalls(fs, i) ==
    IF i > Len(fs) THEN <<>>
    ELSE (IF ~fs[i].Active THEN <<>> ELSE CompletedCalls(fs[i].Completed, 1))
         \o FrameworkCalls(fs, i + 1)

Extract(m, st) ==
    IF m = "task_state_time" THEN FrameworkCalls(st.Frameworks, 1)
    ELSE SlaveCalls(m, st.Slaves, 1)

\* GaugeVec.WithLabelValues(labels...).Set(value): get or create, then overwrite
SetGauge(g, labels, value) ==
    [l \in DOMAIN g \cup {labels} |-> IF l = labels THEN value ELSE g[l]]

RECURSIVE ApplyCalls(_, _, _)
ApplyCalls(g, cs, i) ==
    IF i > Len(cs) THEN g
    ELSE ApplyCalls(SetGauge(g, cs[i].labels, cs[i].value), cs, i + 1)

(***************************************************************************)
(* masterCollector.Collect, one action per step of a call p                *)
(***************************************************************************)
\* the table entry the range statement of call p is at
Current(p) == MetricTable[((start[p] + k[p]) % NumMetrics) + 1]

GetFails(p) ==
    /\ pc[p] = "idle"
    /\ cycles < MaxCycles
    /\ cycles' = cycles + 1
    /\ result' = [result EXCEPT ![p] = "fetch_error"]
    /\ snap' = [snap EXCEPT ![p] = EmptyState]
    /\ calls' = [calls EXCEPT ![p] = <<>>]
    /\ sent' = [sent EXCEPT ![p] = NoSent]
    /\ k' = [k EXCEPT ![p] = 0]
    /\ UNCHANGED <<gauges, pc, body, start, history>>
    /\ UNCHANGED codecVars

GetOk(p) ==
    /\ pc[p] = "idle"
    /\ cycles < MaxCycles
    /\ cycles' = cycles + 1
    /\ \E b \in Bodies : body' = [body EXCEPT ![p] = b]
    /\ pc' = [pc EXCEPT ![p] = "decode"]
    /\ result' = [result EXCEPT ![p] = "running"]
    /\ snap' = [snap EXCEPT ![p] = EmptyState]
    /\ calls' = [calls EXCEPT ![p] = <<>>]
    /\ sent' = [sent EXCEPT ![p] = NoSent]
    /\ k' = [k EXCEPT ![p] = 0]
    /\ UNCHANGED <<gauges, start, history>>
    /\ UNCHANGED codecVars

\* variant: a decode error is logged but the partial snapshot is still projected
DecodeFailsProjects(p) ==
    /\ pc[p] = "decode"
    /\ DecodeState(body[p]).err
    /\ snap' = [snap EXCEPT ![p] = DecodeState(body[p]).val]
    /\ body' = [body EXCEPT ![p] = NoBody]
    /\ start' = [start EXCEPT ![p] = 0]
    /\ pc' = [pc EXCEPT ![p] = "set"]
    /\ UNCHANGED <<gauges, k, calls, sent, result, cycles, history>>
    /\ UNCHANGED codecVars

\* the decode error is logged and Collect returns; whatever the decoder had already
\* stored in s is dropped with the call, so snap keeps its zero value
DecodeFails(p) ==
    /\ pc[p] = "decode"
    /\ DecodeState(body[p]).err
    /\ pc' = [pc EXCEPT ![p] = "idle"]
    /\ body' = [body EXCEPT ![p] = NoBody]
    /\ result' = [result EXCEPT ![p] = "decode_error"]
    /\ UNCHANGED <<gauges, snap, start, k, calls, sent, cycles, history>>
    /\ UNCHANGED codecVars

\* the order of a range over a map is unspecified: the table is ranged over from a start
\* entry chosen per call, wrapping around, with the start drawn from 0..MaxStart
DecodeOk(p) ==
    /\ pc[p] = "decode"
    /\ ~DecodeState(body[p]).err
    /\ snap' = [snap EXCEPT ![p] = DecodeState(body[p]).val]
    /\ history' = history \cup {DecodeState(body[p]).val}
    /\ body' = [body EXCEPT ![p] = NoBody]
    /\ \E s \in 0..MaxStart : start' = [start EXCEPT ![p] = s]
    /\ pc' = [pc EXCEPT ![p] = "set"]
    /\ UNCHANGED <<gauges, k, calls, sent, result, cycles>>
    /\ UNCHANGED codecVars

\* variant: the metric is reset before its extractor runs
SetMetricReset(p) ==
    /\ pc[p] = "set"
    /\ LET m == Current(p)
           cs == Extract(m, snap[p])
       IN  /\ gauges' = [gauges EXCEPT ![m] = ApplyCalls(<<>>, cs, 1)]
           /\ calls' = [calls EXCEPT ![p] = cs]
    /\ pc' = [pc EXCEPT ![p] = "collect"]
    /\ UNCHANGED <<body, snap, start, k, sent, result, cycles, history>>
    /\ UNCHANGED codecVars

\* set(&s, c): the extractor of the current table entry runs
SetMetric(p) ==
    /\ pc[p] = "set"
    /\ LET m == Current(p)
           cs == Extract(m, snap[p])
       IN  /\ gauges' = [gauges EXCEPT ![m] = ApplyCalls(@, cs, 1)]
           /\ calls' = [calls EXCEPT ![p] = cs]
    /\ pc' = [pc EXCEPT ![p] = "collect"]
    /\ UNCHANGED <<body, snap, start, k, sent, result, cycles, history>>
    /\ UNCHANGED codecVars

\* c.Collect(ch): the current observations of the entry are sent; then the next entry
CollectMetric(p) ==
    /\ pc[p] = "collect"
    /\ sent' = [sent EXCEPT ![p] = [metric |-> Current(p), obs |-> gauges[Current(p)]]]
    /\ k' = [k EXCEPT ![p] = @ + 1]
    /\ IF k[p] + 1 = NumMetrics
       THEN /\ pc' = [pc EXCEPT ![p] = "idle"]
            /\ result' = [result EXCEPT ![p] = "ok"]
       ELSE /\ pc' = [pc EXCEPT ![p] = "set"]
            /\ UNCHANGED result
    /\ UNCHANGED <<gauges, body, snap, start, calls, cycles, history>>
    /\ UNCHANGED codecVars

Collect(p) ==
    \/ GetFails(p)
    \/ GetOk(p)
    \/ DecodeFails(p)
    \/ DecodeOk(p)
    \/ SetMetric(p)
    \/ CollectMetric(p)

Init == CollectorInit /\ CodecIdle

\* the documented design: one Collect call at a time
Next == Collect(1)

Spec == Init /\ [][Next]_vars

\* the collector framework calls Collect concurrently; set(&s, c) and c.Collect(ch) are
\* separate steps, each atomic (a GaugeVec locks itself)
ConcNext == \E p \in Procs : Collect(p) /\ cycles' <= MaxConcCycles

ConcSpec == Init /\ [][ConcNext]_vars

(***************************************************************************)
(* Properties of the codec (checked under RangeSpec)                       *)
(***************************************************************************)
HasBadToken == \E i \in 1..Len(toks) : toks[i].kind = "bad"

FirstBad == CHOOSE i \in 1..Len(toks) :
                toks[i].kind = "bad" /\ \A j \in 1..(i - 1) : toks[j].kind = "range"

AllOrdered == \A i \in 1..Len(toks) : toks[i].kind = "range" /\ toks[i].lo <= toks[i].hi

Intervals(n) == [i \in 1..n |-> <<toks[i].lo, toks[i].hi>>]

RECURSIVE TokenSum(_)
TokenSum(i) == IF i = 0 THEN 0 ELSE TokenSum(i - 1) + (toks[i].hi - toks[i].lo + 1)

RECURSIVE IntervalSum(_, _)
IntervalSum(r, i) == IF i = 0 THEN 0 ELSE IntervalSum(r, i - 1) + (r[i][2] - r[i][1] + 1)

\* C7 (as stated): an encoding with a malformed token, wherever it stands, makes decode
\* return an error and leaves the RangeSet without any interval.
C7_MalformedLeavesUnset ==
    (rpc \in {"decoded", "sized"} /\ HasBadToken) => (err /\ rs = <<>>)

\* C7 (amended): an encoding with a malformed token makes decode return an error, and the
\* RangeSet holds exactly the intervals of the well-formed tokens written before the first
\* malformed one (none when the first token is the malformed one).
C7_MalformedKeepsPrefix ==
    (rpc \in {"decoded", "sized"} /\ HasBadToken) => (err /\ rs = Intervals(FirstBad - 1))

C7_Witness ==
    /\ rpc = "decoded"
    /\ Len(toks) = 2
    /\ toks[1].kind = "range"
    /\ toks[2].kind = "bad"
    /\ err
    /\ Len(rs) = 1

\* C8 (as stated): a well-formed encoding with lo <= hi in every token decodes without
\* error to the intervals in the order written, and size() is the sum of (hi - lo + 1);
\* the empty encodings decode to the empty set of size 0.
C8_SizeIsSum ==
    (rpc = "sized" /\ AllOrdered) =>
        (~err /\ rs = Intervals(Len(toks)) /\ sz = TokenSum(Len(toks)))

\* C8 (amended): as stated, except that size() is the sum of (hi - lo + 1) modulo 2^w
\* (w the width of the unsigned type), which is the sum itself whenever the sum fits.
C8_SizeIsSumModulo ==
    (rpc = "sized" /\ AllOrdered) =>
        (~err /\ rs = Intervals(Len(toks)) /\ sz = TokenSum(Len(toks)) % UintMod)

C8_Witness ==
    /\ rpc = "sized"
    /\ Len(toks) = 2
    /\ toks[1].kind = "range" /\ toks[1].lo = 10 /\ toks[1].hi = 20
    /\ toks[2].kind = "range" /\ toks[2].lo = 30 /\ toks[2].hi = 30
    /\ Head(input) = "["
    /\ " " \in {input[i] : i \in 1..Len(input)}
    /\ sz = 12

\* C9: size() returns the sum of (hi - lo + 1) over the intervals modulo 2^w, whatever the
\* intervals: a reversed interval contributes its wrapped length, overlapping intervals
\* are each counted in full, and the full interval [0, 2^w - 1] gives 0.
C9_SizeWraps ==
    (rpc = "sized") =>
        /\ sz = IntervalSum(rs, Len(rs)) % UintMod
        /\ (rs = << <<0, MaxUint>> >> => sz = 0)

C9_Witness ==
    /\ rpc = "sized"
    /\ rs = << <<20, 10>>, <<0, 30>> >>
    /\ sz = (UintMod - 9 + 31) % UintMod

(***************************************************************************)
(* Properties of the collection cycle                                      *)
(***************************************************************************)
TST == "task_state_time"

\* the table entries whose extractor has run in the current (or last) call of p
MetricAt(p, i) == MetricTable[((start[p] + i) % NumMetrics) + 1]

SetDone(p) ==
    { MetricAt(p, i) : i \in 0..(k[p] - 1) }
    \cup (IF pc[p] = "collect" THEN {Current(p)} ELSE {})

\* a body that json.Decoder cannot decode into `state`
Undecodable(b) == b.kind = "malformed" \/ (b.kind = "json" /\ b.doc = DocBadPorts)

UniquePIDs(st) ==
    \A i, j \in 1..Len(st.Slaves) : st.Slaves[i].PID = st.Slaves[j].PID => i = j

\* the positions <<f, j>> of the tasks the task_state_time extractor is to report
Eligible(st) ==
    { fj \in UNION { {<<f, j>> : j \in 1..Len(st.Frameworks[f].Completed)} :
                       f \in 1..Len(st.Frameworks) } :
        /\ st.Frameworks[fj[1]].Active
        /\ Len(st.Frameworks[fj[1]].Completed[fj[2]].Statuses) > 0 }

TaskAt(st, fj) == st.Frameworks[fj[1]].Completed[fj[2]]

\* the label vectors a snapshot has for a metric
LabelsIn(m, st) ==
    IF m = TST THEN { TaskLabelValues(TaskAt(st, fj)) : fj \in Eligible(st) }
    ELSE { <<st.Slaves[i].PID>> : i \in 1..Len(st.Slaves) }

\* the last of the calls of p's latest extractor run that carries the labels of call i
LastWith(p, i) == \A j \in (i + 1)..Len(calls[p]) : calls[p][j].labels # calls[p][i].labels

\* C1: a call whose GET fails or whose body does not decode (not JSON, or a malformed port
\* range anywhere in the document) runs no extractor and leaves every observation of
\* every metric as it was; a body that decodes goes on to the extractors.
C1_FailedCycleChangesNothing ==
    [][ /\ (pc[1] \in {"idle", "decode"} /\ pc'[1] \in {"idle", "decode"})
            => (gauges' = gauges /\ calls'[1] = <<>> /\ sent'[1] = NoSent)
        /\ (pc[1] = "idle" /\ pc'[1] = "idle" /\ cycles' # cycles)
            => result'[1] = "fetch_error"
        /\ (pc[1] = "decode" /\ Undecodable(body[1]))
            => (pc'[1] = "idle" /\ result'[1] = "decode_error")
        /\ (pc[1] = "decode" /\ ~Undecodable(body[1]))
            => (pc'[1] = "set" /\ gauges' = gauges)
        /\ (pc[1] = "set" /\ pc'[1] = "collect")
            => \A l \in LabelsIn(Current(1), snap[1]) :
                  /\ l \in DOMAIN gauges'[Current(1)]
                  /\ \E i \in 1..Len(calls'[1]) :
                        calls'[1][i].labels = l /\ calls'[1][i].value = gauges'[Current(1)][l]
      ]_vars

C1_Witness ==
    /\ result[1] = "decode_error"
    /\ pc[1] = "idle"
    /\ cycles = 2
    /\ DOMAIN gauges["cpus"] = {<<"p1">>, <<"p2">>}
    /\ gauges["mem_bytes"][<<"p1">>] = 2048


\* C2: a call sends, for the metric it has just ranged over, the observations its own
\* extractor derived from its own snapshot, under every interleaving of concurrent calls.
C2_FlushesOwnObservations ==
    \A p \in Procs : \A i \in 1..Len(calls[p]) :
        (calls[p][i].metric = sent[p].metric /\ LastWith(p, i))
            => /\ calls[p][i].labels \in DOMAIN sent[p].obs
               /\ sent[p].obs[calls[p][i].labels] = calls[p][i].value

\* the field of a task a label of task_state_time is named after
FieldFor(name, task) ==
    CASE name = "slave" -> task.SlaveID
      [] name = "task" -> task.ID
      [] name = "executor" -> task.ExecutorID
      [] name = "name" -> task.Name
      [] name = "framework" -> task.FrameworkID
      [] name = "state" -> task.State

\* C3: every call of the task_state_time extractor gives the label values in the order the
\* descriptor declares the labels: slave = SlaveID, task = ID, executor = ExecutorID,
\* name = Name, framework = FrameworkID, state = State.
C3_LabelsInDeclaredOrder ==
    \A p \in Procs : \A i \in 1..Len(calls[p]) :
        calls[p][i].metric = TST =>
            /\ Len(calls[p][i].labels) = Len(LabelNames(TST))
            /\ \A n \in 1..Len(LabelNames(TST)) :
                  calls[p][i].labels[n] = FieldFor(LabelNames(TST)[n], calls[p][i].src)

\* the resource view and the quantity a node metric is named after
ViewOf(m, s) ==
    IF m \in {"cpus", "mem_bytes", "disk_bytes", "ports"} THEN s.Total
    ELSE IF m \in {"cpus_used", "mem_used_bytes", "disk_used_bytes", "ports_used"} THEN s.Used
    ELSE s.Unreserved

QuantityOf(m, v, portCount) ==
    IF m \in {"cpus", "cpus_used", "cpus_unreserved"} THEN v.CPUs
    ELSE IF m \in {"mem_bytes", "mem_used_bytes", "mem_unreserved_bytes"} THEN v.Mem * 1024
    ELSE IF m \in {"disk_bytes", "disk_used_bytes", "disk_unreserved_bytes"} THEN v.Disk * 1024
    ELSE portCount

NodeMetricsHold(exact) ==
    \A m \in SetDone(1) \cap NodeMetrics :
        UniquePIDs(snap[1]) =>
            /\ \A l \in DOMAIN gauges[m] : Len(l) = 1
            /\ pc[1] = "collect" /\ Current(1) = m => Len(calls[1]) = Len(snap[1].Slaves)
            /\ \A i \in 1..Len(snap[1].Slaves) :
                  LET s == snap[1].Slaves[i]
                      n == size(ViewOf(m, s).Ports)
                  IN  /\ <<s.PID>> \in DOMAIN gauges[m]
                      /\ gauges[m][<<s.PID>>] =
                            QuantityOf(m, ViewOf(m, s), IF exact THEN n ELSE Float64(n))

\* C4 (as stated): once a call has ranged over a node-resource metric on a snapshot with
\* unique PIDs, the metric holds one observation per node of the snapshot, labelled by the
\* PID alone, whose value is the matching field of the matching view: CPUs, Mem * 1024,
\* Disk * 1024, Ports.size().
C4_NodeValuesExact == NodeMetricsHold(TRUE)

\* C4 (amended): as stated, except that the ports metrics hold Ports.size() converted to
\* float64, which is Ports.size() itself only while it fits the mantissa.
C4_NodeValuesAsFloat == NodeMetricsHold(FALSE)

C4_Witness ==
    /\ result[1] = "ok"
    /\ snap[1] = DecodeState([kind |-> "json", doc |-> DocA]).val
    /\ gauges["mem_bytes"][<<"p1">>] = 2048
    /\ gauges["cpus_used"][<<"p1">>] = 5
    /\ gauges["cpus"][<<"p1">>] = 4
    /\ gauges["ports"][<<"p1">>] = 11
    /\ gauges["ports_unreserved"][<<"p2">>] = 7
    /\ gauges["disk_unreserved_bytes"][<<"p2">>] = 3072

\* C5: the task_state_time extractor makes a call for a task if and only if the task is a
\* completed task of an active framework and has at least one status; so the metric only
\* ever holds label vectors of such tasks, and none if every snapshot had inactive
\* frameworks only.
C5_OnlyCompletedOfActive ==
    /\ \A p \in Procs :
          (pc[p] = "collect" /\ Current(p) = TST) =>
              /\ Len(calls[p]) = Cardinality(Eligible(snap[p]))
              /\ \A fj \in Eligible(snap[p]) :
                    \E i \in 1..Len(calls[p]) : calls[p][i].src = TaskAt(snap[p], fj)
              /\ \A i \in 1..Len(calls[p]) :
                    \E fj \in Eligible(snap[p]) : calls[p][i].src = TaskAt(snap[p], fj)
    /\ DOMAIN gauges[TST] \subseteq UNION { LabelsIn(TST, st) : st \in history }
    /\ (\A st \in history : \A f \in 1..Len(st.Frameworks) : ~st.Frameworks[f].Active)
          => DOMAIN gauges[TST] = {}

C5_Witness ==
    /\ pc[1] = "collect"
    /\ Current(1) = TST
    /\ snap[1] = DecodeState([kind |-> "json", doc |-> DocA]).val
    /\ Len(calls[1]) = 2
    /\ DecodeState([kind |-> "json", doc |-> DocC]).val \in history

\* C6: the value reported for a completed task of an active framework is the timestamp of
\* the first element of its status sequence, whatever the timestamps of the later ones.
C6_FirstStatusWins ==
    \A p \in Procs : \A i \in 1..Len(calls[p]) :
        calls[p][i].metric = TST =>
            /\ calls[p][i].value = calls[p][i].src.Statuses[1].Timestamp
            /\ (p = 1 /\ pc[1] = "collect" /\ LastWith(1, i))
                  => gauges[TST][calls[1][i].labels] = calls[1][i].src.Statuses[1].Timestamp

C6_Witness ==
    /\ pc[1] = "collect"
    /\ Current(1) = TST
    /\ snap[1] = DecodeState([kind |-> "json", doc |-> DocB]).val
    /\ DecodeState([kind |-> "json", doc |-> DocA]).val \in history
    /\ gauges[TST][TaskLabelValues(TaskFin)] = 50
    /\ gauges[TST][TaskLabelValues(TaskOld)] = 30

\* C10: no step removes an observation; an observation changes only when an extractor runs
\* on a snapshot that has its label vector; and every send of a metric carries all of the
\* metric's observations, those absent from the snapshot included.
C10_ObservationsPersist ==
    [][ /\ \A m \in MetricNames : \A l \in DOMAIN gauges[m] :
              /\ l \in DOMAIN gauges'[m]
              /\ gauges'[m][l] # gauges[m][l]
                    => (pc[1] = "set" /\ Current(1) = m /\ l \in LabelsIn(m, snap[1]))
        /\ pc[1] = "collect"
              => /\ sent'[1].metric = Current(1)
                 /\ \A l \in DOMAIN gauges[Current(1)] :
                       /\ l \in DOMAIN sent'[1].obs
                       /\ sent'[1].obs[l] = gauges[Current(1)][l]
      ]_vars

C10_Witness ==
    /\ result[1] = "ok"
    /\ sent[1].metric = "cpus"
    /\ <<"p2">> \notin LabelsIn("cpus", snap[1])
    /\ <<"p2">> \in DOMAIN sent[1].obs
    /\ sent[1].obs[<<"p2">>] = 2
    /\ TaskLabelValues(TaskOld) \notin LabelsIn(TST, snap[1])
    /\ gauges[TST][TaskLabelValues(TaskOld)] = 30

====
